---------------------------- MODULE Spec2Model ----------------------------
(***************************************************************************)
(* Rice-Leaf-Doctor inference server (app.py).                             *)
(*                                                                         *)
(* A Flask application with two routes: GET / (home) and POST /predict.    *)
(* The only mutable program state is the global `model` handle, which      *)
(* get_model() fills on first use.  Each request handler is a thread of    *)
(* control; its steps are the statements of the handler that read or       *)
(* write the global, or that call into a library that may raise.           *)
(***************************************************************************)
EXTENDS Integers, Sequences, FiniteSets, TLC

(***************************************************************************)
(* Bounds of the model.                                                    *)
(***************************************************************************)
NumThreads == 2      \* handler threads the server may run side by side
MaxRequests == 2     \* requests accepted in one behaviour
MaxScore == 1        \* scores are 0..MaxScore, in units of 1/ScoreDen
ScoreDen == 8        \* resolution of a score
ExtraClasses == 1    \* the model file may have up to this many more outputs than LABELS
MaxPayload == 0      \* bytes of entropy-coded data in an encoded JPEG

Threads == 1..NumThreads

(***************************************************************************)
(* Program constants.                                                      *)
(***************************************************************************)
LABELS ==
    << "Bacterial Leaf Blight", "Brown Spot", "Healthy Rice Leaf", "Leaf Blast",
       "Leaf Scald", "NOT_A_RICE_LEAF", "Sheath Blight" >>

HomeText == "Rice Doctor API is Running! Send POST requests to /predict"

NoImageError == "No image provided"

\* `model = None`
None == 0

(***************************************************************************)
(* Pure helpers.                                                           *)
(***************************************************************************)

\* A slip: the last occurrence of the maximum.
ArgmaxLast(v) ==
    (CHOOSE i \in 1..Len(v) :
        /\ \A j \in 1..Len(v) : v[j] <= v[i]
        /\ \A j \in (i + 1)..Len(v) : v[j] < v[i]) - 1

\* np.argmax(v): the 0-based index of the first occurrence of the maximum.
Argmax(v) ==
    (CHOOSE i \in 1..Len(v) :
        /\ \A j \in 1..Len(v) : v[j] <= v[i]
        /\ \A j \in 1..(i - 1) : v[j] < v[i]) - 1

\* LABELS[idx] for a non-negative idx: a list index out of range raises IndexError.
LabelInRange(idx) == idx + 1 \in 1..Len(LABELS)

LabelAt(idx) == LABELS[idx + 1]

\* preds[0][pred_idx]
ScoreAt(v, idx) == v[idx + 1]

\* round(n / d), d > 0, n >= 0, ties to even: the rounding of float formatting.
RoundHalfEven(n, d) ==
    LET q == n \div d
        r == n % d
    IN  IF 2 * r < d THEN q
        ELSE IF 2 * r > d THEN q + 1
        ELSE IF q % 2 = 0 THEN q ELSE q + 1

Pad2(k) == IF k < 10 THEN "0" \o ToString(k) ELSE ToString(k)

\* f"{confidence:.2%}" for the score s / ScoreDen.
FormatPercent(s) ==
    LET h == RoundHalfEven(s * 10000, ScoreDen)
    IN  ToString(h \div 100) \o "." \o Pad2(h % 100) \o "%"

B64Chars ==
    << "A","B","C","D","E","F","G","H","I","J","K","L","M","N","O","P",
       "Q","R","S","T","U","V","W","X","Y","Z","a","b","c","d","e","f",
       "g","h","i","j","k","l","m","n","o","p","q","r","s","t","u","v",
       "w","x","y","z","0","1","2","3","4","5","6","7","8","9","+","/" >>

B64Char(n) == B64Chars[n + 1]

\* base64.b64encode(bytes).decode("utf-8")
RECURSIVE B64Encode(_)
B64Encode(b) ==
    IF Len(b) = 0 THEN ""
    ELSE IF Len(b) = 1 THEN
        B64Char(b[1] \div 4) \o B64Char((b[1] % 4) * 16) \o "=="
    ELSE IF Len(b) = 2 THEN
        B64Char(b[1] \div 4) \o B64Char((b[1] % 4) * 16 + b[2] \div 16)
            \o B64Char((b[2] % 16) * 4) \o "="
    ELSE
        B64Char(b[1] \div 4) \o B64Char((b[1] % 4) * 16 + b[2] \div 16)
            \o B64Char((b[2] % 16) * 4 + b[3] \div 64) \o B64Char(b[3] % 64)
            \o B64Encode(SubSeq(b, 4, Len(b)))

(***************************************************************************)
(* What the libraries may hand back.                                       *)
(***************************************************************************)

\* current_model.predict(img_batch)[0]: one score per output unit of the model file.
OutLens == Len(LABELS)..(Len(LABELS) + ExtraClasses)

ScoreVectors == UNION { [1..n -> 0..MaxScore] : n \in OutLens }

\* The scores predict returns to a handler of the server: all classes tied, the
\* first class on top, the last class on top.  SpecClassify starts Classify on
\* every vector of ScoreVectors.
PredictOutputs ==
    UNION { { [k \in 1..n |-> IF k = i THEN MaxScore ELSE 0] : i \in {0, 1, n} } :
            n \in OutLens }

\* result_img.save(buffered, format="JPEG"): SOI, some data, EOI.
PayloadBytes == {0, 255}

Payloads == UNION { [1..n -> PayloadBytes] : n \in 0..MaxPayload }

JpegOutputs == { <<255, 216>> \o p \o <<255, 217>> : p \in Payloads }

(***************************************************************************)
(* Responses.                                                              *)
(***************************************************************************)
NoResponse == [status |-> 0, body |-> [none |-> ""]]

HomeResponse == [status |-> 200, body |-> [text |-> HomeText]]

ErrorResponse == [status |-> 400, body |-> [error |-> NoImageError]]

\* An exception that leaves the handler: Flask answers 500.
Unhandled(exc) == [status |-> 500, body |-> [exception |-> exc]]

PredictResponse(l, c, h) ==
    [status |-> 200,
     body |-> [label |-> l, confidence |-> FormatPercent(c), heatmap_image |-> h]]


(***************************************************************************)
(* State.                                                                  *)
(***************************************************************************)
VARIABLES
    threaded,       \* whether the HTTP server runs each request on its own thread
    model,          \* the global `model`: None, or the handle load_model returned
    loads,          \* load_model calls that returned a handle so far
    failedLoads,    \* load_model calls that raised so far
    requests,       \* requests accepted so far
    pc,             \* per thread: the handler statement it is at
    req,            \* per thread: the request being handled
    current_model,  \* per thread: the local of predict()
    preds,          \* per thread: preds[0]
    pred_idx,       \* per thread
    confidence,     \* per thread: the score at pred_idx
    label,          \* per thread
    cam,            \* per thread: how the try block ended: "none" before it, "ok",
                    \* or "failed" when one of its statements raised
    loadsBy,        \* per thread: load_model calls this request made
    resp,           \* per thread: the response of the finished handler
    pair            \* the lazy and the eager variant side by side (SpecPair)

shared == <<threaded, model, loads, failedLoads, requests, pair>>

locals == <<current_model, preds, pred_idx, confidence, label>>

vars == <<threaded, model, loads, failedLoads, requests, pc, req, current_model, preds,
          pred_idx, confidence, label, cam, loadsBy, resp, pair>>

NoRequest == [route |-> "none", hasImage |-> FALSE, decodable |-> FALSE]

\* GET /, and POST /predict without the field, with a field that is no image, and
\* with an image.
Requests ==
    { [route |-> "home", hasImage |-> FALSE, decodable |-> FALSE],
      [route |-> "predict", hasImage |-> FALSE, decodable |-> FALSE],
      [route |-> "predict", hasImage |-> TRUE, decodable |-> FALSE],
      [route |-> "predict", hasImage |-> TRUE, decodable |-> TRUE] }

InitThreads ==
    /\ pc = [t \in Threads |-> "idle"]
    /\ req = [t \in Threads |-> NoRequest]
    /\ current_model = [t \in Threads |-> None]
    /\ preds = [t \in Threads |-> <<>>]
    /\ pred_idx = [t \in Threads |-> 0]
    /\ confidence = [t \in Threads |-> 0]
    /\ label = [t \in Threads |-> ""]
    /\ cam = [t \in Threads |-> "none"]
    /\ loadsBy = [t \in Threads |-> 0]
    /\ resp = [t \in Threads |-> NoResponse]

\* What one request meets in the libraries: whether predict returns and with which
\* scores, whether the Grad-CAM statements all return and with which JPEG.
Envs ==
    { [infer_ok |-> i.ok, scores |-> i.scores, cam_ok |-> c.ok, jpeg |-> c.jpeg] :
        i \in { [ok |-> FALSE, scores |-> <<>>] }
                \cup { [ok |-> TRUE, scores |-> v] : v \in PredictOutputs },
        c \in { [ok |-> FALSE, jpeg |-> <<>>] }
                \cup { [ok |-> TRUE, jpeg |-> j] : j \in JpegOutputs } }

NoEnv == [infer_ok |-> FALSE, scores |-> <<>>, cam_ok |-> FALSE, jpeg |-> <<>>]

\* The handle a successful load_model returns.
LoadedHandle == 1

\* The two variants before their first request: the eager one has loaded the model
\* at import, the lazy one has not.
PairStart ==
    [n |-> 0, req |-> NoRequest, env |-> NoEnv,
     lazy_model |-> None, lazy_resp |-> NoResponse,
     eager_model |-> LoadedHandle, eager_resp |-> NoResponse]

\* Line 27: the handle starts as None.  app.run() (line 127) leaves `threaded`
\* to the server's default; a WSGI server importing `app` chooses its own.
Init ==
    /\ threaded \in BOOLEAN
    /\ model = None
    /\ loads = 0
    /\ failedLoads = 0
    /\ requests = 0
    /\ InitThreads
    /\ pair = PairStart

\* A handler is in progress from the moment its request is dispatched until it
\* returns a response or an exception leaves it.
InProgress(t) == pc[t] \notin {"idle", "done"}

\* The handler of thread t goes on to statement l.
Goto(t, l) ==
    /\ pc' = [pc EXCEPT ![t] = l]
    /\ UNCHANGED resp

\* The handler of thread t ends with response r; its locals are gone.
Return(t, r) ==
    /\ pc' = [pc EXCEPT ![t] = "done"]
    /\ resp' = [resp EXCEPT ![t] = r]
    /\ current_model' = [current_model EXCEPT ![t] = None]
    /\ preds' = [preds EXCEPT ![t] = <<>>]
    /\ pred_idx' = [pred_idx EXCEPT ![t] = 0]
    /\ confidence' = [confidence EXCEPT ![t] = 0]
    /\ label' = [label EXCEPT ![t] = ""]

\* A slip: the server dispatches whenever a thread is free.
AlwaysDispatch(t) == TRUE

\* The server may start a handler on thread t: when it is not threaded, only
\* after the previous response has been sent.
MayDispatch(t) == threaded \/ \A u \in Threads : pc[u] = "idle"

\* The server reads a request and dispatches it to its route.
Accept(t) ==
    /\ pc[t] = "idle"
    /\ requests < MaxRequests
    /\ MayDispatch(t)
    /\ \E r \in Requests :
        /\ req' = [req EXCEPT ![t] = r]
        /\ Goto(t, r.route)
    /\ requests' = requests + 1
    /\ UNCHANGED <<threaded, model, loads, failedLoads, pair, locals, cam, loadsBy>>

\* A slip: the health check warms the model up.
homeLoading(t) ==
    /\ pc[t] = "home"
    /\ Return(t, HomeResponse)
    /\ model' = IF model = None THEN loads + 1 ELSE model
    /\ loads' = IF model = None THEN loads + 1 ELSE loads
    /\ UNCHANGED <<threaded, failedLoads, requests, pair, req, cam, loadsBy>>

\* Lines 73-75.
home(t) ==
    /\ pc[t] = "home"
    /\ Return(t, HomeResponse)
    /\ UNCHANGED <<shared, req, cam, loadsBy>>

\* A slip: the test inverted.
FieldPresent(r) == r.hasImage

\* Line 79: 'image' not in request.files
FieldMissing(r) == ~r.hasImage

\* Lines 79-80.
CheckField(t) ==
    /\ pc[t] = "predict"
    /\ IF FieldMissing(req[t])
       THEN Return(t, ErrorResponse)
       ELSE Goto(t, "open") /\ UNCHANGED locals
    /\ UNCHANGED <<shared, req, cam, loadsBy>>

\* A slip: the decode error answered like the missing field.
OpenImageCaught(t) ==
    /\ pc[t] = "open"
    /\ IF req[t].decodable
       THEN Goto(t, "get_model") /\ UNCHANGED locals
       ELSE Return(t, ErrorResponse)
    /\ UNCHANGED <<shared, req, cam, loadsBy>>

\* Lines 82-94: Image.open raises on bytes that are no image.
OpenImage(t) ==
    /\ pc[t] = "open"
    /\ IF req[t].decodable
       THEN Goto(t, "get_model") /\ UNCHANGED locals
       ELSE Return(t, Unhandled("UnidentifiedImageError"))
    /\ UNCHANGED <<shared, req, cam, loadsBy>>

\* A slip: the global is never consulted, every request loads.
AlwaysLoad(m) == TRUE

\* A slip: the test inverted, nothing is ever loaded.
NeverLoad(m) == m # None

\* Line 32: model is None
NeedsLoad(m) == m = None

\* Line 32: the test of get_model().
GetModelTest(t) ==
    /\ pc[t] = "get_model"
    /\ Goto(t, IF NeedsLoad(model) THEN "load" ELSE "return_model")
    /\ UNCHANGED <<shared, req, locals, cam, loadsBy>>

\* A slip: the global is bound before the load has succeeded.
LoadModelEarlyBind(t) ==
    /\ pc[t] = "load"
    /\ loadsBy' = [loadsBy EXCEPT ![t] = @ + 1]
    /\ model' = loads + 1
    /\ loads' = loads + 1
    /\ \E ok \in BOOLEAN :
        IF ok
        THEN Goto(t, "return_model") /\ UNCHANGED <<locals, failedLoads>>
        ELSE Return(t, Unhandled("OSError")) /\ failedLoads' = failedLoads + 1
    /\ UNCHANGED <<threaded, requests, pair, req, cam>>

\* Line 35: load_model returns a new handle, which is assigned to the global, or
\* raises (a missing or unreadable file) and the assignment does not happen.
LoadModel(t) ==
    /\ pc[t] = "load"
    /\ loadsBy' = [loadsBy EXCEPT ![t] = @ + 1]
    /\ \E ok \in BOOLEAN :
        IF ok
        THEN /\ model' = loads + 1
             /\ loads' = loads + 1
             /\ Goto(t, "return_model")
             /\ UNCHANGED <<locals, failedLoads>>
        ELSE /\ Return(t, Unhandled("OSError"))
             /\ failedLoads' = failedLoads + 1
             /\ UNCHANGED <<model, loads>>
    /\ UNCHANGED <<threaded, requests, pair, req, cam>>

\* Lines 37 and 99: return model; current_model = get_model()
ReturnModel(t) ==
    /\ pc[t] = "return_model"
    /\ current_model' = [current_model EXCEPT ![t] = model]
    /\ Goto(t, "infer")
    /\ UNCHANGED <<shared, req, preds, pred_idx, confidence, label, cam, loadsBy>>

\* Line 102: predict returns the scores of the one image of the batch, or raises.
\* A None handle has no predict attribute.
Predict(t) ==
    /\ pc[t] = "infer"
    /\ IF current_model[t] = None
       THEN Return(t, Unhandled("AttributeError"))
       ELSE \/ Return(t, Unhandled("InferenceError"))
            \/ \E v \in PredictOutputs :
                /\ preds' = [preds EXCEPT ![t] = v]
                /\ Goto(t, "classify")
                /\ UNCHANGED <<current_model, pred_idx, confidence, label>>
    /\ UNCHANGED <<shared, req, cam, loadsBy>>

\* Lines 103-105: argmax, confidence, label lookup.
Classify(t) ==
    /\ pc[t] = "classify"
    /\ LET idx == Argmax(preds[t])
       IN  IF LabelInRange(idx)
           THEN /\ pred_idx' = [pred_idx EXCEPT ![t] = idx]
                /\ confidence' = [confidence EXCEPT ![t] = ScoreAt(preds[t], idx)]
                /\ label' = [label EXCEPT ![t] = LabelAt(idx)]
                /\ Goto(t, "gradcam")
                /\ UNCHANGED <<current_model, preds>>
           ELSE Return(t, Unhandled("IndexError"))
    /\ UNCHANGED <<shared, req, cam, loadsBy>>

\* Line 118: the except clause.
GradCamFallback == ""

\* A slip: no try around the Grad-CAM statements.
GradCamUncaught(t) ==
    /\ pc[t] = "gradcam"
    /\ \/ \E jpeg \in JpegOutputs :
            /\ Return(t, PredictResponse(label[t], confidence[t], B64Encode(jpeg)))
            /\ cam' = [cam EXCEPT ![t] = "ok"]
       \/ /\ Return(t, Unhandled("Exception"))
          /\ cam' = [cam EXCEPT ![t] = "failed"]
    /\ UNCHANGED <<shared, req, loadsBy>>

\* Lines 108-118: the try block ends normally with the base64 text of the JPEG,
\* or one of its statements (lines 110, 111, 114, 115) raises and the except
\* clause runs.
\* Lines 120-124: the response is built from label, confidence and img_str.
GradCam(t) ==
    /\ pc[t] = "gradcam"
    /\ \/ \E jpeg \in JpegOutputs :
            LET img_str == B64Encode(jpeg)
            IN  /\ Return(t, PredictResponse(label[t], confidence[t], img_str))
                /\ cam' = [cam EXCEPT ![t] = "ok"]
       \/ LET img_str == GradCamFallback
          IN  /\ Return(t, PredictResponse(label[t], confidence[t], img_str))
              /\ cam' = [cam EXCEPT ![t] = "failed"]
    /\ UNCHANGED <<shared, req, loadsBy>>

\* The response is sent; the thread is free for the next request.
Finish(t) ==
    /\ pc[t] = "done"
    /\ pc' = [pc EXCEPT ![t] = "idle"]
    /\ req' = [req EXCEPT ![t] = NoRequest]
    /\ cam' = [cam EXCEPT ![t] = "none"]
    /\ loadsBy' = [loadsBy EXCEPT ![t] = 0]
    /\ resp' = [resp EXCEPT ![t] = NoResponse]
    /\ UNCHANGED <<shared, locals>>

Next ==
    \E t \in Threads :
        \/ Accept(t)
        \/ home(t)
        \/ CheckField(t)
        \/ OpenImage(t)
        \/ GetModelTest(t)
        \/ LoadModel(t)
        \/ ReturnModel(t)
        \/ Predict(t)
        \/ Classify(t)
        \/ GradCam(t)
        \/ Finish(t)

Spec == Init /\ [][Next]_vars

(***************************************************************************)
(* Classification on every score vector: a handler that has just received  *)
(* the scores from predict (line 102), on a server that is not threaded.   *)
(***************************************************************************)
GoodRequest == [route |-> "predict", hasImage |-> TRUE, decodable |-> TRUE]

InitClassify ==
    /\ threaded = FALSE
    /\ model = LoadedHandle
    /\ loads = 1
    /\ failedLoads = 0
    /\ requests = 1
    /\ pair = PairStart
    /\ pc = [t \in Threads |-> IF t = 1 THEN "classify" ELSE "idle"]
    /\ req = [t \in Threads |-> IF t = 1 THEN GoodRequest ELSE NoRequest]
    /\ current_model = [t \in Threads |-> IF t = 1 THEN LoadedHandle ELSE None]
    /\ \E v \in ScoreVectors : preds = [t \in Threads |-> IF t = 1 THEN v ELSE <<>>]
    /\ pred_idx = [t \in Threads |-> 0]
    /\ confidence = [t \in Threads |-> 0]
    /\ label = [t \in Threads |-> ""]
    /\ cam = [t \in Threads |-> "none"]
    /\ loadsBy = [t \in Threads |-> IF t = 1 THEN 1 ELSE 0]
    /\ resp = [t \in Threads |-> NoResponse]

NextClassify ==
    \E t \in Threads :
        \/ Classify(t)
        \/ GradCam(t)
        \/ Finish(t)

SpecClassify == InitClassify /\ [][NextClassify]_vars

(***************************************************************************)
(* The lazy and the eager variant answering the same requests, one request *)
(* after another, each handler run from its first statement to its last.   *)
(***************************************************************************)

\* Lines 101-124, the same in both variants: the response for handle cm.
Answer(cm, e) ==
    IF cm = None THEN Unhandled("AttributeError")
    ELSE IF ~e.infer_ok THEN Unhandled("InferenceError")
    ELSE LET idx == Argmax(e.scores)
         IN  IF ~LabelInRange(idx) THEN Unhandled("IndexError")
             ELSE PredictResponse(LabelAt(idx), ScoreAt(e.scores, idx),
                                  IF e.cam_ok THEN B64Encode(e.jpeg)
                                  ELSE GradCamFallback)

\* Lines 30-37 when load_model succeeds: the global after the call.
get_model(m) == IF NeedsLoad(m) THEN LoadedHandle ELSE m

\* Lines 77-124 as one step: the global after the request, and the response.
LazyPredict(m, r, e) ==
    IF FieldMissing(r) THEN [model |-> m, resp |-> ErrorResponse]
    ELSE IF ~r.decodable
    THEN [model |-> m, resp |-> Unhandled("UnidentifiedImageError")]
    ELSE [model |-> get_model(m), resp |-> Answer(get_model(m), e)]

LazyHandle(m, r, e) ==
    IF r.route = "home" THEN [model |-> m, resp |-> HomeResponse]
    ELSE LazyPredict(m, r, e)

\* The eager variant: the same handler with the global used where the lazy
\* variant calls get_model().
EagerPredict(m, r, e) ==
    IF ~r.hasImage THEN [model |-> m, resp |-> ErrorResponse]
    ELSE IF ~r.decodable
    THEN [model |-> m, resp |-> Unhandled("UnidentifiedImageError")]
    ELSE [model |-> m, resp |-> Answer(m, e)]

EagerHandle(m, r, e) ==
    IF r.route = "home" THEN [model |-> m, resp |-> HomeResponse]
    ELSE EagerPredict(m, r, e)

\* Both variants answer request r, meeting e in the libraries.
PairRequest ==
    /\ pair.n < MaxRequests
    /\ \E r \in Requests, e \in Envs :
        LET l == LazyHandle(pair.lazy_model, r, e)
            g == EagerHandle(pair.eager_model, r, e)
        IN  pair' = [n |-> pair.n + 1, req |-> r, env |-> e,
                     lazy_model |-> l.model, lazy_resp |-> l.resp,
                     eager_model |-> g.model, eager_resp |-> g.resp]
    /\ UNCHANGED <<threaded, model, loads, failedLoads, requests, pc, req, locals, cam,
                   loadsBy, resp>>

NextPair == PairRequest

SpecPair == Init /\ [][NextPair]_vars

(***************************************************************************)
(* Properties.                                                             *)
(***************************************************************************)

\* Thread t takes a step of its handler.
Steps(t) == pc'[t] # pc[t]

\* The handler of thread t has ended with a response.
Ended(t) == pc[t] = "done"

PredictKeys == {"label", "confidence", "heatmap_image"}

\* C1: a POST /predict without the `image` field never gets past the field
\* check, and ends with status 400 and a body that holds `error` and none of
\* label, confidence, heatmap_image, whatever the model handle is.
C1_MissingFieldIs400 ==
    \A t \in Threads :
        (req[t].route = "predict" /\ ~req[t].hasImage) =>
            /\ pc[t] \in {"predict", "done"}
            /\ Ended(t) =>
                /\ resp[t].status = 400
                /\ "error" \in DOMAIN resp[t].body
                /\ DOMAIN resp[t].body \cap PredictKeys = {}

C1_Witness ==
    \E t \in Threads :
        /\ Ended(t) /\ req[t].route = "predict" /\ ~req[t].hasImage
        /\ resp[t].status = 400
        /\ model # None

\* C2: the step that runs the Grad-CAM try block always ends the request with
\* status 200, the label and the formatted confidence computed before it, and
\* heatmap_image empty exactly when a statement of the block raised, the base64
\* text of the JPEG otherwise.
C2_GradCamDegrades ==
    [][\A t \in Threads :
        (pc[t] = "gradcam" /\ Steps(t)) =>
            /\ pc'[t] = "done"
            /\ cam'[t] \in {"ok", "failed"}
            /\ resp'[t].status = 200
            /\ DOMAIN resp'[t].body = PredictKeys
            /\ resp'[t].body.label = label[t]
            /\ resp'[t].body.confidence = FormatPercent(confidence[t])
            /\ (resp'[t].body.heatmap_image = "") <=> (cam'[t] = "failed")
            /\ cam'[t] = "ok" =>
                 \E j \in JpegOutputs : resp'[t].body.heatmap_image = B64Encode(j)
      ]_vars

C2_Witness ==
    \E t \in Threads :
        /\ Ended(t) /\ cam[t] = "failed"
        /\ resp[t].status = 200
        /\ resp[t].body.heatmap_image = ""

\* The statements before the try block at which a library call or the label
\* lookup can raise.
RaisingSteps == {"open", "load", "infer", "classify"}

\* C3: a handler that ends at image decoding, model load, inference or label
\* lookup ends with an unhandled exception (status 500, no label, confidence,
\* heatmap_image or error in the body), and a request whose image does not decode
\* never gets past decoding.
C3_OtherFailuresAre500 ==
    /\ [](\A t \in Threads :
            (req[t].route = "predict" /\ req[t].hasImage /\ ~req[t].decodable) =>
                /\ pc[t] \in {"predict", "open", "done"}
                /\ Ended(t) => resp[t].status = 500)
    /\ [][\A t \in Threads :
            (pc[t] \in RaisingSteps /\ pc'[t] = "done") =>
                /\ resp'[t].status = 500
                /\ DOMAIN resp'[t].body = {"exception"}
         ]_vars

C3_Witness ==
    \E t \in Threads :
        /\ Ended(t)
        /\ req[t].route = "predict" /\ req[t].hasImage /\ ~req[t].decodable
        /\ resp[t].status = 500

\* C4: the handle is unset at start; GET / never loads; a POST /predict that
\* reaches get_model with the handle unset goes to the load; and on a server
\* that handles one request after another at most one load succeeds, every
\* handler past get_model holds the one loaded handle, and a set handle is
\* never changed.
C4_LazyLoadOnce ==
    /\ model = None
    /\ [](~threaded =>
            /\ loads <= 1
            /\ (model = None) <=> (loads = 0)
            /\ \A t \in Threads :
                 pc[t] \in {"infer", "classify", "gradcam"} =>
                     current_model[t] = model /\ model # None)
    /\ [][/\ model # None => (~threaded => model' = model) /\ model' # None
          /\ \A t \in Threads :
               /\ (pc[t] = "home" /\ Steps(t)) => (model' = model /\ loads' = loads)
               /\ (pc[t] = "get_model" /\ Steps(t)) =>
                     pc'[t] = IF model = None THEN "load" ELSE "return_model"
         ]_vars

C4_Witness ==
    \E t \in Threads :
        /\ ~threaded /\ requests = 2 /\ loads = 1
        /\ pc[t] = "infer" /\ loadsBy[t] = 0
        /\ current_model[t] = model

\* C5, as claimed: at no moment are two request handlers in progress together.
C5_OneAtATime == Cardinality({ t \in Threads : InProgress(t) }) <= 1

\* C5, amended: on a server that is not threaded at most one thread is busy
\* with a request at any moment.
C5_OneAtATimeIfNotThreaded ==
    ~threaded => Cardinality({ t \in Threads : pc[t] # "idle" }) <= 1

C5_Witness ==
    /\ ~threaded
    /\ requests = 2
    /\ \E t \in Threads : InProgress(t)

\* C6: GET / never leaves its one statement except by returning status 200 and
\* the fixed text, with the model handle of that moment left as it was.
C6_HomeIsStatic ==
    /\ [](\A t \in Threads :
            req[t].route = "home" =>
                /\ pc[t] \in {"home", "done"}
                /\ Ended(t) =>
                     resp[t] = [status |-> 200, body |-> [text |-> HomeText]])
    /\ [][\A t \in Threads :
            (pc[t] = "home" /\ Steps(t)) => (model' = model /\ loads' = loads)
         ]_vars

C6_Witness ==
    \E t \in Threads :
        /\ Ended(t) /\ req[t].route = "home"
        /\ resp[t].status = 200
        /\ model # None

\* C9, as claimed: however the handlers of two POST /predict are interleaved,
\* load_model succeeds at most once and no two handlers run inference on
\* different handles.
C9_LoadedOnceUnderInterleaving ==
    /\ loads <= 1
    /\ \A t, u \in Threads :
         (pc[t] \in {"infer", "classify", "gradcam"}
            /\ pc[u] \in {"infer", "classify", "gradcam"}) =>
              current_model[t] = current_model[u]

\* C10: a request without the field or with an undecodable image never calls
\* load_model and its steps leave the handle and the load count alone; a load
\* that raises leaves the handle as it was (unset, on a server that handles one
\* request after another); and no handler runs inference on an unset handle.
C10_FailureLeavesHandle ==
    /\ [](\A t \in Threads :
            /\ (req[t].route = "predict" /\ ~(req[t].hasImage /\ req[t].decodable)) =>
                   loadsBy[t] = 0
            /\ pc[t] = "infer" => current_model[t] # None)
    /\ [][\A t \in Threads :
            /\ (pc[t] \in {"predict", "open"} /\ Steps(t)) =>
                   (model' = model /\ loads' = loads)
            /\ (pc[t] = "load" /\ pc'[t] = "done") =>
                   /\ model' = model /\ loads' = loads
                   /\ ~threaded => model' = None
            /\ (pc[t] = "get_model" /\ model = None /\ Steps(t)) => pc'[t] = "load"
         ]_vars

C10_Witness ==
    /\ ~threaded
    /\ failedLoads = 1
    /\ model = None
    /\ \E t \in Threads : pc[t] = "load"

\* The largest score of v, and the lowest 0-based index that holds it.
Largest(v) == CHOOSE m \in { v[k] : k \in 1..Len(v) } : \A k \in 1..Len(v) : v[k] <= m

FirstLargest(v) ==
    (CHOOSE i \in 1..Len(v) :
        v[i] = Largest(v) /\ \A k \in 1..Len(v) : v[k] = Largest(v) => i <= k) - 1

LabelSet == { LABELS[k] : k \in 1..Len(LABELS) }

C8_LabelIsArgmax ==
    /\ [](\A t \in Threads :
            pc[t] = "gradcam" =>
                LET i == FirstLargest(preds[t])
                IN  /\ i < Len(LABELS)
                    /\ pred_idx[t] = i
                    /\ label[t] = LABELS[i + 1]
                    /\ label[t] \in LabelSet
                    /\ confidence[t] = preds[t][i + 1])
    /\ [][\A t \in Threads :
            /\ (pc[t] = "classify" /\ Steps(t)) =>
                 IF FirstLargest(preds[t]) < Len(LABELS)
                 THEN pc'[t] = "gradcam"
                 ELSE /\ pc'[t] = "done"
                      /\ resp'[t].status = 500
                      /\ "label" \notin DOMAIN resp'[t].body
            /\ (pc[t] = "gradcam" /\ Steps(t)) =>
                 LET i == FirstLargest(preds[t])
                 IN  /\ resp'[t].status = 200
                     /\ resp'[t].body.label = LABELS[i + 1]
                     /\ resp'[t].body.confidence = FormatPercent(preds[t][i + 1])
         ]_vars

C8_Witness ==
    \E t \in Threads :
        /\ pc[t] = "gradcam"
        /\ pred_idx[t] = 2
        /\ label[t] = "Healthy Rice Leaf"
        /\ \E k \in 4..Len(preds[t]) : preds[t][k] = preds[t][3]

============================================================================
